---- MODULE Spec2Model ----
(***************************************************************************)
(* Model of src-tauri/src/main.rs: the desktop shell that launches the     *)
(* Python backend.  main() runs the setup hook (which calls                *)
(* start_python_server once) and then the event loop, from which the UI    *)
(* may invoke start_python_server again.  Every invocation hands the       *)
(* launch to a detached helper thread and returns ().  The helper thread   *)
(* reads the process's current directory, takes its parent as the project  *)
(* root and spawns ".venv/bin/python src/fidu_core/main.py" there; each of *)
(* the three steps ends in expect(), i.e. a panic of the helper thread.    *)
(* The Child handle returned by spawn() is dropped at once: the shell      *)
(* keeps no handle, never probes, waits for, restarts or kills a child.    *)
(*                                                                         *)
(* Directories are sequences of path components (<<>> is the root).  The   *)
(* relative program path is resolved against the child's working          *)
(* directory (Unix semantics of Command::current_dir).  Creation of the    *)
(* helper thread itself is taken to succeed.                               *)
(***************************************************************************)
EXTENDS Integers, Sequences, FiniteSets, TLC

VARIABLES shell, thr, ret, children, stderr, cwd, exeRoots

vars == <<shell, thr, ret, children, stderr, cwd, exeRoots>>

\* Number of UI-triggered start_python_server invocations explored.
MaxUI == 2

\* ---------------------------------------------------------------- paths

\* Option<PathBuf>
None == [ok |-> FALSE, dir |-> <<>>]
Some(d) == [ok |-> TRUE, dir |-> d]

\* Directory the shell is installed in (the "src-tauri" of the comment on
\* line 11), and the other places the process may be started from.
InstallDir == <<"opt", "fidu", "src-tauri">>
AmbientDirs == {InstallDir, <<"home", "user">>, <<>>}

\* Directories that may hold an executable .venv/bin/python.
ExeCandidates == {<<"opt", "fidu">>, <<"home">>}

\* Path::parent(): None for the root.
Parent(d) == IF Len(d) = 0 THEN None ELSE Some(SubSeq(d, 1, Len(d) - 1))

\* The program Command::new(".venv/bin/python") names once the child has
\* changed into its working directory.
ExePath(root) == root \o <<".venv", "bin", "python">>

\* ---------------------------------------------------------------- state

Threads == 1..Len(thr)
Children == 1..Len(children)
Running(i) == thr[i].pc \in {"cwd", "parent", "spawn"}
Live == {k \in Children : children[k].state # "exited"}
UICalls == {i \in Threads : thr[i].caller = "ui"}

Init ==
    /\ shell = "init"
    /\ thr = <<>>
    /\ ret = <<>>
    /\ children = <<>>
    /\ stderr = <<>>
    /\ cwd \in {Some(d) : d \in AmbientDirs} \cup {None}
    /\ exeRoots \in SUBSET ExeCandidates

\* ---------------------------------------------------------------- shell

\* start_python_server(): thread::spawn(closure) and return ().
StartPythonServer(caller) ==
    /\ thr' = Append(thr, [caller |-> caller, pc |-> "cwd",
                           current_dir |-> <<>>, project_root |-> <<>>])
    /\ ret' = Append(ret, "Unit")

\* main(): the setup hook calls start_python_server and returns Ok(());
\* the event loop then runs.
Setup ==
    /\ shell = "init"
    /\ StartPythonServer("setup")
    /\ shell' = "running"
    /\ UNCHANGED <<children, stderr, cwd, exeRoots>>

\* The UI invokes the registered command while the event loop runs.
UIInvoke ==
    /\ shell = "running"
    /\ Cardinality(UICalls) < MaxUI
    /\ StartPythonServer("ui")
    /\ UNCHANGED <<shell, children, stderr, cwd, exeRoots>>

\* The event loop ends and the process exits: helper threads still running
\* die with the process; nothing is done about children.
ShellExit ==
    /\ shell = "running"
    /\ shell' = "exited"
    /\ thr' = [i \in Threads |->
                 IF Running(i) THEN [thr[i] EXCEPT !.pc = "killed"] ELSE thr[i]]
    /\ UNCHANGED <<ret, children, stderr, cwd, exeRoots>>

\* -------------------------------------------------------- helper thread

\* expect(msg) on an Err/None: the helper thread panics; the message (with
\* the error, if any) goes to stderr and the thread unwinds.
Panic_Abort(i, msg, err) ==
    /\ thr' = [thr EXCEPT ![i].pc = "panicked"]
    /\ stderr' = Append(stderr, [thread |-> i, msg |-> msg, err |-> err])
    /\ shell' = "exited"
    /\ UNCHANGED <<ret, children, cwd, exeRoots>>

Panic(i, msg, err) ==
    /\ thr' = [thr EXCEPT ![i].pc = "panicked"]
    /\ stderr' = Append(stderr, [thread |-> i, msg |-> msg, err |-> err])
    /\ UNCHANGED <<shell, ret, children, cwd, exeRoots>>

\* let current_dir = env::current_dir().expect(...)
ThreadCurrentDir(i) ==
    /\ shell = "running"
    /\ thr[i].pc = "cwd"
    /\ IF cwd.ok
         THEN /\ thr' = [thr EXCEPT ![i].pc = "parent",
                                    ![i].current_dir = cwd.dir]
              /\ UNCHANGED <<shell, ret, children, stderr, cwd, exeRoots>>
         ELSE Panic(i, "Failed to get current directory", "NotFound")

\* let project_root = current_dir.parent().expect(...)
ThreadParent(i) ==
    /\ shell = "running"
    /\ thr[i].pc = "parent"
    /\ LET p == Parent(thr[i].current_dir) IN
       IF p.ok
         THEN /\ thr' = [thr EXCEPT ![i].pc = "spawn",
                                    ![i].project_root = p.dir]
              /\ UNCHANGED <<shell, ret, children, stderr, cwd, exeRoots>>
         ELSE Panic(i, "Failed to get project root", "None")

\* Command::new(".venv/bin/python").arg(..).current_dir(project_root)
\*     .spawn().expect(...)
\* The OS may refuse the spawn (osOk = FALSE) even if the program exists.
ThreadSpawn(i) ==
    /\ shell = "running"
    /\ thr[i].pc = "spawn"
    /\ \E osOk \in BOOLEAN :
         IF thr[i].project_root \notin exeRoots
           THEN Panic(i, "Failed to start Python server", "NotFound")
           ELSE IF ~osOk
             THEN Panic(i, "Failed to start Python server", "Other")
             ELSE /\ children' = Append(children,
                          [by |-> i, workdir |-> thr[i].project_root,
                           exe |-> ExePath(thr[i].project_root),
                           state |-> "starting"])
                  /\ thr' = [thr EXCEPT ![i].pc = "done"]
                  /\ UNCHANGED <<shell, ret, stderr, cwd, exeRoots>>

\* ---------------------------------------------------------------- child

\* The backend starts to serve requests.
ChildServe(k) ==
    /\ children[k].state = "starting"
    /\ children' = [children EXCEPT ![k].state = "serving"]
    /\ UNCHANGED <<shell, thr, ret, stderr, cwd, exeRoots>>

\* A child exits and the shell relaunches it.
ChildExit_Relaunch(k) ==
    /\ children[k].state \in {"starting", "serving"}
    /\ children' = Append([children EXCEPT ![k].state = "exited"],
                          [children[k] EXCEPT !.state = "starting"])
    /\ UNCHANGED <<shell, thr, ret, stderr, cwd, exeRoots>>

\* The backend exits (crash or otherwise); the shell does not notice.
ChildExit(k) ==
    /\ children[k].state \in {"starting", "serving"}
    /\ children' = [children EXCEPT ![k].state = "exited"]
    /\ UNCHANGED <<shell, thr, ret, stderr, cwd, exeRoots>>

Next ==
    \/ Setup
    \/ UIInvoke
    \/ ShellExit
    \/ \E i \in Threads : ThreadCurrentDir(i)
    \/ \E i \in Threads : ThreadParent(i)
    \/ \E i \in Threads : ThreadSpawn(i)
    \/ \E k \in Children : ChildServe(k)
    \/ \E k \in Children : ChildExit(k)

Spec == Init /\ [][Next]_vars

TypeOK ==
    /\ shell \in {"init", "running", "exited"}
    /\ Len(ret) = Len(thr)
    /\ \A i \in Threads :
         thr[i].pc \in {"cwd", "parent", "spawn", "done", "panicked", "killed"}
    /\ \A k \in Children : children[k].state \in {"starting", "serving", "exited"}

\* ------------------------------------------------------------ properties

ByThread(i) == {k \in Children : children[k].by = i}
Reports(i) == {n \in 1..Len(stderr) : stderr[n].thread = i}
SpawnFailures(i) ==
    {n \in Reports(i) : stderr[n].msg = "Failed to start Python server"}
Crashed == {k \in Children : children[k].state = "exited"}
LaunchInProgress ==
    \/ \E i \in Threads : Running(i)
    \/ \E k \in Children : children[k].state = "starting"

\* C1: in every reachable state at most one child process launched by the
\* shell is alive.
C1_AtMostOneLiveChild == Cardinality(Live) <= 1

\* C2: there is no reachable state in which the shell has exited and a
\* child it launched is still alive.
C2_NoOrphanAfterExit == shell = "exited" => Live = {}

\* C3: every launch attempt that has run to its end has reported exactly
\* one of the outcomes Ready and Failed.
C3_OutcomeReported ==
    \A i \in Threads :
        thr[i].pc \in {"done", "panicked"} => ret[i] \in {"Ready", "Failed"}

\* C4: a launch whose resolved executable does not exist returns
\* ExecutableNotFound to its caller and creates no child.
C4_ExecutableNotFoundReturned ==
    \A i \in Threads :
        (\E n \in SpawnFailures(i) : stderr[n].err = "NotFound")
            => ret[i] = "ExecutableNotFound" /\ ByThread(i) = {}

\* C5: the working directory and executable of a launch do not depend on
\* the ambient current directory: started from any other directory, the
\* shell would have launched the same executable in the same directory.
C5_AmbientDirIndependent ==
    \A k \in Children : \A d \in AmbientDirs :
        /\ Parent(d) = Some(children[k].workdir)
        /\ ExePath(Parent(d).dir) = children[k].exe

\* C6: with max_attempts = 3, once three children have crashed the outcome
\* RestartBudgetExhausted has been reported.
C6_RestartBudgetExhausted ==
    Cardinality(Crashed) >= 3 =>
        \/ \E i \in Threads : ret[i] = "RestartBudgetExhausted"
        \/ \E n \in 1..Len(stderr) : stderr[n].msg = "RestartBudgetExhausted"

\* C7: the UI becomes interactive (setup has returned Ok and the event loop
\* runs) only when a readiness check of a child that is still alive has
\* succeeded, which requires a live child that serves requests.
C7_ReadyBeforeInteractive ==
    [][(shell # "running" /\ shell' = "running")
          => \E k \in 1..Len(children') : children'[k].state = "serving"]_vars

\* C8: when the shell stops while a launch is in progress, the partially
\* started child is terminated, and no child is spawned after the shell
\* has stopped.
C8_ShutdownDuringLaunch ==
    [][/\ (shell = "running" /\ shell' = "exited" /\ LaunchInProgress)
             => \A k \in 1..Len(children') : children'[k].state = "exited"
       /\ shell = "exited" => Len(children') = Len(children)]_vars

C10_OneSpawnPerInvocation ==
    /\ \A i \in Threads : Cardinality(ByThread(i)) + Cardinality(SpawnFailures(i)) <= 1
    /\ \A k \in Children : children[k].by \in Threads
    /\ Len(children) <= 1 + Cardinality(UICalls)
    /\ shell = "init" => thr = <<>> /\ children = <<>>
    /\ \A i \in Threads : thr[i].caller = "setup" <=> i = 1

C10_Witness ==
    /\ Cardinality(UICalls) >= 1
    /\ Len(children) = 1 + Cardinality(UICalls)
    /\ Crashed # {}
    /\ \E i \in Threads : SpawnFailures(i) = {} /\ thr[i].pc = "done"

====
